---- MODULE Spec2Model ----
(***************************************************************************)
(* Model of the packing-plan executors and of the replay:                  *)
(*   src/realtime_visualizer.py                (replay of a plan)          *)
(*   src/python-executor/executor_with_viz.py  (handlers + live state +    *)
(*                                              bounded agent loop)        *)
(*   src/python-executor/executor.py           (stateless handlers +       *)
(*                                              unbounded agent loop)      *)
(* Strings the code builds with f-strings are modelled as tuples           *)
(* <<fixed text, interpolated value>>.  Python None is the empty tuple and *)
(* a present value v is <<v>>.                                             *)
(***************************************************************************)
EXTENDS Integers, Sequences, FiniteSets, TLC

VARIABLES
    program,        \* which script runs: "executor" or "executor_with_viz"
    current_item,   \* LivePackingVisualizer.current_item
    current_bin,    \* LivePackingVisualizer.current_bin
    bin_items,      \* LivePackingVisualizer.bin_items
    total_value,    \* LivePackingVisualizer.total_value
    packed_value,   \* LivePackingVisualizer.packed_value
    stats,          \* figures place_item derives: per bin (items_count,
                    \* area_used, value_packed) and unpacked_value
    call,           \* the last handler invocation: <<name, arguments...>>
    result,         \* return value of the last handler call
    pc,             \* position of main: "handlers", "call", "dispatch", "done"
    iteration,      \* number of loop iterations started so far
    messages,       \* conversation history
    tool_calls,     \* invocations of the current assistant turn not yet dispatched
    exit,           \* control path that left the loop
    printed,        \* what main printed about the run
    agent_calls,    \* number of calls made to the agent service
    handler_calls,  \* number of handler invocations made by the loop
    last_done,      \* Execution State after the last completed handler
    reply,          \* kind of the agent service's last answer
    agent_mode,     \* how the agent answers in this run
    geo_item,       \* the item handed to the geometry functions
    geo_area,       \* what calculate_actual_area returned for it
    geo_patch,      \* the patch draw_shape_patch added for it
    replay_plan,    \* the plan read from optimized_plan.json where it varies
    all_placements, \* RealtimeVisualizer.all_placements
    step,           \* loop variable of RealtimeVisualizer.animate
    snapshots       \* what update_plot has displayed, step after step

state_vars == <<current_item, current_bin, bin_items, total_value, packed_value,
                stats>>
loop_vars == <<pc, iteration, messages, tool_calls, exit, printed, agent_calls,
               handler_calls, last_done, reply>>
vars == <<program, current_item, current_bin, bin_items, total_value,
          packed_value, stats, call, result, pc, iteration, messages, tool_calls, exit,
          printed, agent_calls, handler_calls, last_done, reply, agent_mode,
          geo_item, geo_area, geo_patch, replay_plan, all_placements, step,
          snapshots>>

geo_vars == <<geo_item, geo_area, geo_patch>>
replay_vars == <<replay_plan, all_placements, step, snapshots>>

----------------------------------------------------------------------------
(* Bounds of the model *)

MaxPlaced == 3      \* place_item calls recorded per run
MaxTurns == 3       \* calls a freely answering agent is given
MaxRequests == 3    \* tool invocations a freely answering agent emits per run
MaxDim == 3         \* width and height handed to the geometry functions
MaxPlanBins == 2    \* bins of a replayed plan
MaxPlanItems == 3   \* items of a replayed plan, over all its bins

(* Program constants *)

max_iterations == 200
num_bins == 4
num_axes == 4

None == <<>>
Some(v) == <<v>>

ItemIds == {"X", "Y"}
BinInputs == {0, 1, 2, 5}

Geoms ==
    { [x |-> 0, y |-> 0, width |-> 4, height |-> 2, shape |-> "Rectangle",
       price |-> 5, rotation |-> 0],
      [x |-> 4, y |-> 0, width |-> 2, height |-> 2, shape |-> "Triangle",
       price |-> 3, rotation |-> 90],
      [x |-> 0, y |-> 2, width |-> 2, height |-> 4, shape |-> "Circle",
       price |-> 2, rotation |-> 0] }

(* The plan read from optimized_plan.json: bins in order, items in order. *)
packing_plan ==
    << [binId |-> 1,
        items |-> << [id |-> "X", x |-> 0, y |-> 0, width |-> 4, height |-> 2,
                      shape |-> "Rectangle", price |-> 5, rotation |-> 0] >>],
       [binId |-> 2,
        items |-> << [id |-> "Y", x |-> 4, y |-> 0, width |-> 2, height |-> 2,
                      shape |-> "Triangle", price |-> 3, rotation |-> 90] >>] >>

RECURSIVE SumPrices(_)
SumPrices(items) ==
    IF items = <<>> THEN 0
    ELSE items[1].price + SumPrices(Tail(items))

(* dict.get(key, default) *)
Get(d, key, default) == IF key \in DOMAIN d THEN d[key] ELSE default

(* total_value += item_data.get('price', 0) over the items of one bin *)
RECURSIVE SumPlanPrices(_)
SumPlanPrices(items) ==
    IF items = <<>> THEN 0
    ELSE Get(items[1], "price", 0) + SumPlanPrices(Tail(items))

RECURSIVE plan_total_value(_)
plan_total_value(plan) ==
    IF plan = <<>> THEN 0
    ELSE SumPlanPrices(plan[1].items) + plan_total_value(Tail(plan))

(* Areas are kept exact: [half |-> a, qpi |-> b] stands for the number     *)
(* a/2 + b*pi/4.                                                           *)
Area(half, qpi) == [half |-> half, qpi |-> qpi]

AreaPlus(a, b) == Area(a.half + b.half, a.qpi + b.qpi)

Min(a, b) == IF a < b THEN a ELSE b

(* calculate_actual_area without the halving of the triangle. *)
calculate_actual_area_box(shape, width, height) ==
    IF shape = "Triangle"
    THEN Area(2 * width * height, 0)
    ELSE IF shape = "Circle"
    THEN Area(0, Min(width, height) * Min(width, height))
    ELSE Area(2 * width * height, 0)

(* calculate_actual_area with the circle's diameter taken as width. *)
calculate_actual_area_width(shape, width, height) ==
    IF shape = "Triangle"
    THEN Area(width * height, 0)
    ELSE IF shape = "Circle"
    THEN Area(0, width * width)
    ELSE Area(2 * width * height, 0)

calculate_actual_area(shape, width, height) ==
    IF shape = "Triangle"
    THEN Area(width * height, 0)
    ELSE IF shape = "Circle"
    THEN Area(0, Min(width, height) * Min(width, height))
    ELSE Area(2 * width * height, 0)

(* sum(calculate_actual_area(...) for item in items) *)
RECURSIVE SumArea(_)
SumArea(items) ==
    IF items = <<>> THEN Area(0, 0)
    ELSE AreaPlus(calculate_actual_area(items[1].shape, items[1].width,
                                        items[1].height),
                  SumArea(Tail(items)))

(* Python truthiness of an optional bin id: None and 0 are falsy. *)
Truthy(opt) == opt # None /\ opt[1] # 0

visualizer == program = "executor_with_viz"

----------------------------------------------------------------------------
(* LivePackingVisualizer *)

update_current_item(item_id) ==
    /\ current_item' = Some(item_id)
    /\ UNCHANGED <<current_bin, bin_items, total_value, packed_value, stats>>

(* update_current_bin assigning only while an item is held. *)
update_current_bin_if_held(bin_id) ==
    IF current_item # None
    THEN /\ current_bin' = Some(bin_id)
         /\ UNCHANGED <<current_item, bin_items, total_value, packed_value, stats>>
    ELSE UNCHANGED state_vars

update_current_bin(bin_id) ==
    /\ current_bin' = Some(bin_id)
    /\ UNCHANGED <<current_item, bin_items, total_value, packed_value, stats>>

ItemRecord(item_id, g) ==
    [id |-> item_id, shape |-> g.shape, x |-> g.x, y |-> g.y,
     width |-> g.width, height |-> g.height, price |-> g.price,
     rotation |-> g.rotation]

(* LivePackingVisualizer.place_item without `self.packed_value += price`. *)
visualizer_place_item_no_packed(item_id, bin_id, g) ==
    IF bin_id < 1 \/ bin_id > 4
    THEN UNCHANGED state_vars
    ELSE /\ bin_items' = [bin_items EXCEPT
                            ![bin_id] = Append(@, ItemRecord(item_id, g))]
         /\ stats' = [bins |-> [stats.bins EXCEPT ![bin_id] =
                          Some([items_count |-> Len(bin_items'[bin_id]),
                                area_used |-> SumArea(bin_items'[bin_id]),
                                value_packed |-> SumPrices(bin_items'[bin_id])])],
                       unpacked_value |-> Some(total_value - packed_value)]
         /\ UNCHANGED <<current_item, current_bin, total_value, packed_value>>

(* LivePackingVisualizer.place_item showing the value packed over all bins *)
(* as the bin's value.                                                     *)
visualizer_place_item_total_value(item_id, bin_id, g) ==
    IF bin_id < 1 \/ bin_id > 4
    THEN UNCHANGED state_vars
    ELSE /\ bin_items' = [bin_items EXCEPT
                            ![bin_id] = Append(@, ItemRecord(item_id, g))]
         /\ packed_value' = packed_value + g.price
         /\ stats' = [bins |-> [stats.bins EXCEPT ![bin_id] =
                          Some([items_count |-> Len(bin_items'[bin_id]),
                                area_used |-> SumArea(bin_items'[bin_id]),
                                value_packed |-> packed_value'])],
                       unpacked_value |-> Some(total_value - packed_value')]
         /\ UNCHANGED <<current_item, current_bin, total_value>>

visualizer_place_item(item_id, bin_id, g) ==
    IF bin_id < 1 \/ bin_id > 4
    THEN UNCHANGED state_vars
    ELSE /\ bin_items' = [bin_items EXCEPT
                            ![bin_id] = Append(@, ItemRecord(item_id, g))]
         /\ packed_value' = packed_value + g.price
         /\ stats' = [bins |-> [stats.bins EXCEPT ![bin_id] =
                          Some([items_count |-> Len(bin_items'[bin_id]),
                                area_used |-> SumArea(bin_items'[bin_id]),
                                value_packed |-> SumPrices(bin_items'[bin_id])])],
                       unpacked_value |-> Some(total_value - packed_value')]
         /\ UNCHANGED <<current_item, current_bin, total_value>>

----------------------------------------------------------------------------
(* Action functions *)

pick_up(item_id) ==
    /\ IF visualizer
       THEN update_current_item(item_id)
       ELSE UNCHANGED state_vars
    /\ call' = <<"pick_up", item_id>>
    /\ result' = <<"Successfully holding item", item_id>>

move_to_bin(bin_id) ==
    /\ IF visualizer
       THEN update_current_bin(bin_id)
       ELSE UNCHANGED state_vars
    /\ call' = <<"move_to_bin", bin_id>>
    /\ result' = <<"Successfully arrived at bin", bin_id>>

place_item(item_id, g) ==
    /\ IF visualizer /\ Truthy(current_bin)
       THEN visualizer_place_item(item_id, current_bin[1], g)
       ELSE UNCHANGED state_vars
    /\ call' = <<"place_item", item_id, g>>
    /\ result' = <<"has been placed successfully", item_id>>

Placed == LET RECURSIVE Count(_)
              Count(b) == IF b = 0 THEN 0 ELSE Len(bin_items[b]) + Count(b - 1)
          IN Count(num_bins)

----------------------------------------------------------------------------
(* Specification Spec: the three handlers called in any order on the live  *)
(* state of executor_with_viz.py.                                          *)

Init ==
    /\ program = "executor_with_viz"
    /\ current_item = None
    /\ current_bin = None
    /\ bin_items = [i \in 1..num_bins |-> <<>>]
    /\ total_value = plan_total_value(packing_plan)
    /\ packed_value = 0
    /\ stats = [bins |-> [i \in 1..num_bins |-> None], unpacked_value |-> None]
    /\ call = None
    /\ result = None
    /\ pc = "handlers"
    /\ iteration = 0
    /\ messages = <<>>
    /\ tool_calls = <<>>
    /\ exit = "none"
    /\ printed = <<>>
    /\ agent_calls = 0
    /\ handler_calls = 0
    /\ last_done = None
    /\ reply = "none"
    /\ agent_mode = "none"
    /\ geo_item = None
    /\ geo_area = None
    /\ geo_patch = None
    /\ replay_plan = <<>>
    /\ all_placements = <<>>
    /\ step = 0
    /\ snapshots = <<>>

PickUp ==
    /\ pc = "handlers"
    /\ \E item_id \in ItemIds : pick_up(item_id)
    /\ UNCHANGED <<program, agent_mode, geo_vars, replay_vars, loop_vars>>

MoveToBin ==
    /\ pc = "handlers"
    /\ \E bin_id \in BinInputs : move_to_bin(bin_id)
    /\ UNCHANGED <<program, agent_mode, geo_vars, replay_vars, loop_vars>>

PlaceItem ==
    /\ pc = "handlers"
    /\ Placed < MaxPlaced
    /\ \E item_id \in ItemIds, g \in Geoms : place_item(item_id, g)
    /\ UNCHANGED <<program, agent_mode, geo_vars, replay_vars, loop_vars>>

Next == PickUp \/ MoveToBin \/ PlaceItem

Spec == Init /\ [][Next]_vars

----------------------------------------------------------------------------
(* The agent loop of main.  One action per answer of the agent service and *)
(* one per dispatched tool invocation.                                     *)

available_tools == {"pick_up", "move_to_bin", "place_item"}

(* Number of keyword arguments each action function requires. *)
Arity(name) ==
    CASE name = "pick_up" -> 1
      [] name = "move_to_bin" -> 1
      [] name = "place_item" -> 2
      [] OTHER -> 0

(* A tool invocation as the service returns it.  json_ok: whether          *)
(* function.arguments parses with json.loads; kwargs: the parsed arguments *)
(* (item_id / bin_id / item_id and the geometry).                          *)
ToolCall(id, name, json_ok, kwargs) ==
    [id |-> id, name |-> name, json_ok |-> json_ok, kwargs |-> kwargs]

PlanGeom == CHOOSE g \in Geoms : g.shape = "Rectangle"

(* What the agent may ask for in one invocation: <<name, json_ok, kwargs>> *)
Requests ==
    { <<"pick_up", TRUE, <<"X">> >>,
      <<"pick_up", TRUE, <<"Y">> >>,
      <<"move_to_bin", TRUE, <<1>> >>,
      <<"place_item", TRUE, <<"X", PlanGeom>> >>,
      <<"place_item", TRUE, <<>> >>,          \* required arguments missing
      <<"move_to_bin", FALSE, <<>> >>,        \* arguments are not JSON
      <<"fly", TRUE, <<>> >> }                \* not one of the tools

SteadyRequest == <<"move_to_bin", TRUE, <<1>> >>

RECURSIVE BatchesOfLen(_)
BatchesOfLen(n) ==
    IF n = 0 THEN { <<>> }
    ELSE { Append(b, r) : b \in BatchesOfLen(n - 1), r \in Requests }

(* Tool invocations the agent has emitted so far in the history h. *)
RECURSIVE Requested(_)
Requested(h) ==
    IF h = <<>> THEN 0
    ELSE Len(h[1].tool_calls) + Requested(Tail(h))

Batches == UNION { BatchesOfLen(n) : n \in 1..(MaxRequests - Requested(messages)) }

(* The invocations of one assistant turn, with the ids the service gives. *)
WithIds(batch, turn) ==
    [k \in 1..Len(batch) |->
        ToolCall(<<turn, k>>, batch[k][1], batch[k][2], batch[k][3])]

Message(role, content, calls, id, name) ==
    [role |-> role, content |-> content, tool_calls |-> calls,
     tool_call_id |-> id, name |-> name]

SystemMessage == Message("system", <<"system instruction">>, <<>>, None, None)
UserMessage == Message("user", <<"plan_text">>, <<>>, None, None)
AssistantMessage(content, calls) == Message("assistant", content, calls, None, None)
ToolMessage(tc, res) == Message("tool", res, <<>>, Some(tc.id), Some(tc.name))

(* Lines 435-439 / 191: what main does once the loop is left. *)
after_loop(p) ==
    IF visualizer
    THEN p \o <<"--- Agent execution complete. ---", "Live Bin Packing - COMPLETE!">>
    ELSE p \o <<"--- Agent loop finished. ---">>

(* Leaving through `except Exception` (431-433); executor.py has no        *)
(* handler, the exception ends the process.                                *)
raise_exception ==
    /\ pc' = "done"
    /\ tool_calls' = <<>>
    /\ IF visualizer
       THEN /\ exit' = "break_except"
            /\ printed' = after_loop(Append(printed, "ERROR during agent execution"))
       ELSE /\ exit' = "raise"
            /\ printed' = Append(printed, "Traceback")

(* Guard of one more call to the service: range(max_iterations) in         *)
(* executor_with_viz.py, `while True` in executor.py.                      *)
loop_continues ==
    IF visualizer THEN iteration < max_iterations ELSE TRUE

(* executor.py's loop has no bound of its own: the model follows it one    *)
(* call past max_iterations.  A freely answering agent is followed for    *)
(* MaxTurns calls.                                                         *)
CanCall ==
    /\ pc = "call"
    /\ loop_continues
    /\ agent_calls <= max_iterations
    /\ agent_mode = "free" => agent_calls < MaxTurns

(* AgentFail with `continue` in place of `break` in the except clause. *)
AgentFail_retry ==
    /\ CanCall
    /\ agent_calls' = agent_calls + 1
    /\ reply' = "error"
    /\ iteration' = iteration + 1
    /\ printed' = Append(printed, "ERROR during agent execution")
    /\ UNCHANGED <<program, agent_mode, geo_vars, replay_vars, state_vars,
                   call, result, pc, exit,
                   messages, tool_calls, handler_calls, last_done>>

(* client.chat.completions.create raises. *)
AgentFail ==
    /\ CanCall
    /\ agent_calls' = agent_calls + 1
    /\ reply' = "error"
    /\ raise_exception
    /\ UNCHANGED <<program, agent_mode, geo_vars, replay_vars, state_vars,
                   call, result, iteration,
                   messages, handler_calls, last_done>>

(* The answer has text and no tool invocations (executor_with_viz.py       *)
(* 407-413; executor.py 185-189, which does not append the message).       *)
AgentFinal ==
    /\ CanCall
    /\ agent_calls' = agent_calls + 1
    /\ reply' = "final"
    /\ IF visualizer
       THEN /\ messages' = Append(messages, AssistantMessage(<<"text">>, <<>>))
            /\ printed' = after_loop(Append(printed, "assistant content"))
       ELSE /\ messages' = messages
            /\ printed' = after_loop(Append(printed, "AGENT: assistant content"))
    /\ exit' = "break_final"
    /\ pc' = "done"
    /\ UNCHANGED <<program, agent_mode, geo_vars, replay_vars, state_vars,
                   call, result, iteration,
                   tool_calls, handler_calls, last_done>>

(* The answer has neither text nor tool invocations: the test at line 411  *)
(* of executor_with_viz.py is false and so is the one at 416; executor.py  *)
(* takes its else branch (185-189).                                        *)
AgentEmpty ==
    /\ CanCall
    /\ agent_mode \in {"free", "silent"}
    /\ agent_calls' = agent_calls + 1
    /\ reply' = "empty"
    /\ IF visualizer
       THEN /\ messages' = Append(messages, AssistantMessage(None, <<>>))
            /\ iteration' = iteration + 1
            /\ UNCHANGED <<pc, exit, printed>>
       ELSE /\ printed' = after_loop(Append(printed, "AGENT: None"))
            /\ exit' = "break_final"
            /\ pc' = "done"
            /\ UNCHANGED <<messages, iteration>>
    /\ UNCHANGED <<program, agent_mode, geo_vars, replay_vars, state_vars,
                   call, result, tool_calls,
                   handler_calls, last_done>>

(* AgentTools keeping a window of the history: the oldest message is       *)
(* dropped when the assistant turn is appended.                            *)
AgentTools_window ==
    /\ CanCall
    /\ agent_mode \in {"free", "tools"}
    /\ \E batch \in (IF agent_mode = "free" THEN Batches ELSE { <<SteadyRequest>> }) :
         LET calls == WithIds(batch, agent_calls + 1) IN
         /\ messages' = Append(Tail(messages), AssistantMessage(None, calls))
         /\ tool_calls' = calls
    /\ agent_calls' = agent_calls + 1
    /\ reply' = "tools"
    /\ pc' = "dispatch"
    /\ UNCHANGED <<program, agent_mode, geo_vars, replay_vars, state_vars,
                   call, result, iteration,
                   exit, printed, handler_calls, last_done>>

(* The answer carries tool invocations. *)
AgentTools ==
    /\ CanCall
    /\ agent_mode \in {"free", "tools"}
    /\ \E batch \in (IF agent_mode = "free" THEN Batches ELSE { <<SteadyRequest>> }) :
         LET calls == WithIds(batch, agent_calls + 1) IN
         /\ messages' = Append(messages, AssistantMessage(None, calls))
         /\ tool_calls' = calls
    /\ agent_calls' = agent_calls + 1
    /\ reply' = "tools"
    /\ pc' = "dispatch"
    /\ UNCHANGED <<program, agent_mode, geo_vars, replay_vars, state_vars,
                   call, result, iteration,
                   exit, printed, handler_calls, last_done>>

(* The call of the action function named by the invocation, line 422. *)
Invoke(tc) ==
    CASE tc.name = "pick_up" -> pick_up(tc.kwargs[1])
      [] tc.name = "move_to_bin" -> move_to_bin(tc.kwargs[1])
      [] tc.name = "place_item" -> place_item(tc.kwargs[1], tc.kwargs[2])

(* next_tool_call leaving the inner loop after the first invocation. *)
next_tool_call_first_only ==
    /\ tool_calls' = <<>>
    /\ pc' = "call"
    /\ iteration' = iteration + 1
    /\ UNCHANGED <<exit, printed>>

(* End of the body of `for tool_call in ...`: next invocation, or the next *)
(* iteration of the loop.                                                  *)
next_tool_call ==
    /\ tool_calls' = Tail(tool_calls)
    /\ IF Tail(tool_calls) = <<>>
       THEN pc' = "call" /\ iteration' = iteration + 1
       ELSE UNCHANGED <<pc, iteration>>
    /\ UNCHANGED <<exit, printed>>

(* One pass of the body of `for tool_call in tool_calls`                   *)
(* (executor_with_viz.py 417-429, executor.py 168-184).  json.loads runs   *)
(* before the membership test in executor_with_viz.py; executor.py indexes *)
(* available_tools directly, so an unknown name raises KeyError there.     *)
Dispatch ==
    /\ pc = "dispatch"
    /\ tool_calls # <<>>
    /\ LET tc == Head(tool_calls) IN
       IF \/ ~tc.json_ok
          \/ (~visualizer /\ tc.name \notin available_tools)
          \/ (tc.name \in available_tools /\ Len(tc.kwargs) # Arity(tc.name))
       THEN /\ raise_exception
            /\ UNCHANGED <<state_vars, call, result, iteration, messages,
                           handler_calls, last_done>>
       ELSE IF tc.name \notin available_tools
       THEN /\ next_tool_call
            /\ UNCHANGED <<state_vars, call, result, messages, handler_calls,
                           last_done>>
       ELSE /\ Invoke(tc)
            /\ handler_calls' = handler_calls + 1
            /\ messages' = Append(messages, ToolMessage(tc, result'))
            /\ last_done' = Some(state_vars')
            /\ next_tool_call
    /\ UNCHANGED <<program, agent_mode, geo_vars, replay_vars, agent_calls, reply>>

(* range(max_iterations) is used up. *)
LoopExhausted ==
    /\ pc = "call"
    /\ ~loop_continues
    /\ exit' = "for_end"
    /\ printed' = after_loop(printed)
    /\ pc' = "done"
    /\ UNCHANGED <<program, agent_mode, geo_vars, replay_vars, state_vars,
                   call, result, iteration,
                   messages, tool_calls, agent_calls, handler_calls, last_done,
                   reply>>

InitLoop ==
    /\ program \in {"executor", "executor_with_viz"}
    /\ agent_mode \in {"free", "tools", "silent"}
    /\ current_item = None
    /\ current_bin = None
    /\ bin_items = [i \in 1..num_bins |-> <<>>]
    /\ total_value = (IF visualizer THEN plan_total_value(packing_plan) ELSE 0)
    /\ packed_value = 0
    /\ stats = [bins |-> [i \in 1..num_bins |-> None], unpacked_value |-> None]
    /\ call = None
    /\ result = None
    /\ pc = "call"
    /\ iteration = 0
    /\ messages = <<SystemMessage, UserMessage>>
    /\ tool_calls = <<>>
    /\ exit = "none"
    /\ printed = <<>>
    /\ agent_calls = 0
    /\ handler_calls = 0
    /\ last_done = Some(state_vars)
    /\ reply = "none"
    /\ geo_item = None
    /\ geo_area = None
    /\ geo_patch = None
    /\ replay_plan = <<>>
    /\ all_placements = <<>>
    /\ step = 0
    /\ snapshots = <<>>

NextLoop ==
    \/ AgentFail
    \/ AgentFinal
    \/ AgentEmpty
    \/ AgentTools
    \/ Dispatch
    \/ LoopExhausted

SpecLoop == InitLoop /\ [][NextLoop]_vars

----------------------------------------------------------------------------
(* Geometry: calculate_actual_area and draw_shape_patch, which the three   *)
(* visualizers (executor_with_viz.py 13-21 and 99-155, visualizer.py       *)
(* 18-68 and 183-192, realtime_visualizer.py 15-23 and 79-129) define with *)
(* the same arithmetic.  Specification SpecGeometry applies them to one    *)
(* item.                                                                   *)

Shapes == {"Rectangle", "Circle", "Triangle", "Hexagon"}
Rotations == {0, 90, 180, 270, 45}

GeoItems ==
    [shape : Shapes, x : {0, 2}, y : {0, 1}, width : 1..MaxDim,
     height : 1..MaxDim, rotation : Rotations]

(* triangle_points with the branches for 180 and 270 exchanged. *)
triangle_points_swapped(x, y, width, height, rotation) ==
    IF rotation = 90
    THEN << <<x, y>>, <<x + width, y>>, <<x + width, y + height>> >>
    ELSE IF rotation = 270
    THEN << <<x + width, y>>, <<x + width, y + height>>, <<x, y + height>> >>
    ELSE IF rotation = 180
    THEN << <<x, y + height>>, <<x + width, y + height>>, <<x, y>> >>
    ELSE << <<x, y>>, <<x + width, y>>, <<x, y + height>> >>

triangle_points(x, y, width, height, rotation) ==
    IF rotation = 90
    THEN << <<x, y>>, <<x + width, y>>, <<x + width, y + height>> >>
    ELSE IF rotation = 180
    THEN << <<x + width, y>>, <<x + width, y + height>>, <<x, y + height>> >>
    ELSE IF rotation = 270
    THEN << <<x, y + height>>, <<x + width, y + height>>, <<x, y>> >>
    ELSE << <<x, y>>, <<x + width, y>>, <<x, y + height>> >>

(* The patch added to the axes.  A circle is kept by twice its centre and  *)
(* its diameter, so that halves stay integers.                             *)
draw_shape_patch(shape, x, y, width, height, rotation) ==
    IF shape = "Circle"
    THEN [patch |-> "Circle", centre2 |-> <<2 * x + width, 2 * y + height>>,
          diameter |-> Min(width, height)]
    ELSE IF shape = "Triangle"
    THEN [patch |-> "Polygon",
          points |-> triangle_points(x, y, width, height, rotation)]
    ELSE [patch |-> "Rectangle", xy |-> <<x, y>>, width |-> width,
          height |-> height]

InitGeometry ==
    /\ program = "executor_with_viz"
    /\ current_item = None
    /\ current_bin = None
    /\ bin_items = [i \in 1..num_bins |-> <<>>]
    /\ total_value = 0
    /\ packed_value = 0
    /\ stats = [bins |-> [i \in 1..num_bins |-> None], unpacked_value |-> None]
    /\ call = None
    /\ result = None
    /\ pc = "geometry"
    /\ iteration = 0
    /\ messages = <<>>
    /\ tool_calls = <<>>
    /\ exit = "none"
    /\ printed = <<>>
    /\ agent_calls = 0
    /\ handler_calls = 0
    /\ last_done = None
    /\ reply = "none"
    /\ agent_mode = "none"
    /\ geo_item \in { Some(i) : i \in GeoItems }
    /\ geo_area = None
    /\ geo_patch = None
    /\ replay_plan = <<>>
    /\ all_placements = <<>>
    /\ step = 0
    /\ snapshots = <<>>

(* The area accounted for the item (lines 201-202). *)
ComputeArea ==
    /\ pc = "geometry"
    /\ geo_area = None
    /\ LET i == geo_item[1] IN
       geo_area' = Some(calculate_actual_area(i.shape, i.width, i.height))
    /\ UNCHANGED <<program, agent_mode, state_vars, call, result, loop_vars,
                   geo_item, geo_patch, replay_vars>>

(* The item drawn (line 184). *)
DrawPatch ==
    /\ pc = "geometry"
    /\ geo_patch = None
    /\ LET i == geo_item[1] IN
       geo_patch' = Some(draw_shape_patch(i.shape, i.x, i.y, i.width, i.height,
                                          i.rotation))
    /\ UNCHANGED <<program, agent_mode, state_vars, call, result, loop_vars,
                   geo_item, geo_area, replay_vars>>

NextGeometry == ComputeArea \/ DrawPatch

SpecGeometry == InitGeometry /\ [][NextGeometry]_vars

----------------------------------------------------------------------------
(* Replay: RealtimeVisualizer of realtime_visualizer.py.  __init__ flattens *)
(* the plan into all_placements, animate calls update_plot for each step.   *)
(* A snapshot is what update_plot computes and shows for one step.          *)

ReplayItems ==
    { [id |-> "X", x |-> 0, y |-> 0, width |-> 4, height |-> 2,
       shape |-> "Rectangle", price |-> 5],
      [id |-> "Y", x |-> 4, y |-> 0, width |-> 2, height |-> 2,
       shape |-> "Triangle", price |-> 3, rotation |-> 90],
      [id |-> "Z", x |-> 0, y |-> 2, width |-> 2, height |-> 4,
       shape |-> "Circle", rotation |-> 0] }

RECURSIVE SumInts(_)
SumInts(ns) == IF ns = <<>> THEN 0 ELSE ns[1] + SumInts(Tail(ns))

(* The plan whose b-th bin has id ids[b] and holds the next sizes[b] of     *)
(* the items.                                                               *)
MakePlan(ids, sizes, items) ==
    [b \in DOMAIN ids |->
        [binId |-> ids[b],
         items |-> SubSeq(items, SumInts(SubSeq(sizes, 1, b - 1)) + 1,
                          SumInts(SubSeq(sizes, 1, b)))]]

bin_dimensions ==
    [b \in 1..4 |-> CASE b = 1 -> <<30, 20>>
                      [] b = 2 -> <<25, 20>>
                      [] b = 3 -> <<25, 18>>
                      [] b = 4 -> <<20, 20>>]

Placement(bin_id, item_data) ==
    [bin_id |-> bin_id, item_id |-> item_data.id, x |-> item_data.x,
     y |-> item_data.y, width |-> item_data.width,
     height |-> item_data.height,
     shape |-> Get(item_data, "shape", "Rectangle"),
     price |-> Get(item_data, "price", 0),
     rotation |-> Get(item_data, "rotation", 0)]

RECURSIVE build_all_placements(_)
build_all_placements(plan) ==
    IF plan = <<>> THEN <<>>
    ELSE [n \in 1..Len(plan[1].items) |->
              Placement(plan[1].binId, plan[1].items[n])]
         \o build_all_placements(Tail(plan))

(* all_placements[:n] restricted to one bin *)
PlacedInBin(placements, n, bin_id) ==
    SelectSeq(SubSeq(placements, 1, n), LAMBDA p : p.bin_id = bin_id)

(* Snapshot with the value summed over all bins. *)
Snapshot_all_values(placements, s) ==
    LET placement == placements[s + 1]
        bin_id == placement.bin_id
    IN  [step |-> s, bin_id |-> bin_id, item_id |-> placement.item_id,
         items_in_bin |-> Len(PlacedInBin(placements, s + 1, bin_id)),
         area_used |-> SumArea(PlacedInBin(placements, s + 1, bin_id)),
         value_in_bin |-> SumPrices(SubSeq(placements, 1, s + 1)),
         bin_area |-> bin_dimensions[bin_id][1] * bin_dimensions[bin_id][2],
         shown |-> s + 1, of |-> Len(placements),
         progress |-> [num |-> (s + 1) * 100, den |-> Len(placements)]]

(* Snapshot with the sums taken over all_placements[:step]. *)
Snapshot_before(placements, s) ==
    LET placement == placements[s + 1]
        bin_id == placement.bin_id
    IN  [step |-> s, bin_id |-> bin_id, item_id |-> placement.item_id,
         items_in_bin |-> Len(PlacedInBin(placements, s, bin_id)),
         area_used |-> SumArea(PlacedInBin(placements, s, bin_id)),
         value_in_bin |-> SumPrices(PlacedInBin(placements, s, bin_id)),
         bin_area |-> bin_dimensions[bin_id][1] * bin_dimensions[bin_id][2],
         shown |-> s + 1, of |-> Len(placements),
         progress |-> [num |-> (s + 1) * 100, den |-> Len(placements)]]

(* What update_plot shows for step s (0-based): the bin's text and the     *)
(* title.  progress is the percentage (s + 1) / len * 100, kept as a        *)
(* fraction num/den.                                                        *)
Snapshot(placements, s) ==
    LET placement == placements[s + 1]
        bin_id == placement.bin_id
    IN  [step |-> s, bin_id |-> bin_id, item_id |-> placement.item_id,
         items_in_bin |-> Len(PlacedInBin(placements, s + 1, bin_id)),
         area_used |-> SumArea(PlacedInBin(placements, s + 1, bin_id)),
         value_in_bin |-> SumPrices(PlacedInBin(placements, s + 1, bin_id)),
         bin_area |-> bin_dimensions[bin_id][1] * bin_dimensions[bin_id][2],
         shown |-> s + 1, of |-> Len(placements),
         progress |-> [num |-> (s + 1) * 100, den |-> Len(placements)]]

InitReplay ==
    /\ program = "realtime_visualizer"
    /\ current_item = None
    /\ current_bin = None
    /\ bin_items = [i \in 1..num_bins |-> <<>>]
    /\ total_value = 0
    /\ packed_value = 0
    /\ stats = [bins |-> [i \in 1..num_bins |-> None], unpacked_value |-> None]
    /\ call = None
    /\ result = None
    /\ pc = "animate"
    /\ iteration = 0
    /\ messages = <<>>
    /\ tool_calls = <<>>
    /\ exit = "none"
    /\ printed = <<>>
    /\ agent_calls = 0
    /\ handler_calls = 0
    /\ last_done = None
    /\ reply = "none"
    /\ agent_mode = "none"
    /\ geo_item = None
    /\ geo_area = None
    /\ geo_patch = None
    /\ \E nb \in 0..MaxPlanBins :
         \E sizes \in [1..nb -> 0..MaxPlanItems] :
            /\ SumInts(sizes) <= MaxPlanItems
            /\ \E ids \in [1..nb -> BinInputs] :
                  \E items \in [1..SumInts(sizes) -> ReplayItems] :
                     replay_plan = MakePlan(ids, sizes, items)
    /\ all_placements = build_all_placements(replay_plan)
    /\ step = 0
    /\ snapshots = <<>>

(* One turn of animate's loop: update_plot(step).  A bin index of 4 or     *)
(* more returns before anything is shown; a bin id that is no key of        *)
(* bin_dimensions (and no index of axes) raises and ends the run.           *)
UpdatePlot ==
    /\ pc = "animate"
    /\ step < Len(all_placements)
    /\ LET bin_id == all_placements[step + 1].bin_id
           bin_idx == bin_id - 1
       IN  IF bin_idx >= num_axes
           THEN /\ step' = step + 1
                /\ UNCHANGED <<pc, snapshots>>
           ELSE IF bin_id \notin DOMAIN bin_dimensions
           THEN /\ pc' = "raised"
                /\ UNCHANGED <<step, snapshots>>
           ELSE /\ snapshots' = Append(snapshots, Snapshot(all_placements, step))
                /\ step' = step + 1
                /\ UNCHANGED pc
    /\ UNCHANGED <<program, agent_mode, state_vars, call, result, iteration,
                   messages, tool_calls, exit, printed, agent_calls,
                   handler_calls, last_done, reply, geo_vars, replay_plan,
                   all_placements>>

(* The loop of animate is over: the title turns to COMPLETE. *)
AnimateDone ==
    /\ pc = "animate"
    /\ step = Len(all_placements)
    /\ pc' = "complete"
    /\ UNCHANGED <<program, agent_mode, state_vars, call, result, iteration,
                   messages, tool_calls, exit, printed, agent_calls,
                   handler_calls, last_done, reply, geo_vars, replay_vars>>

NextReplay == UpdatePlot \/ AnimateDone

SpecReplay == InitReplay /\ [][NextReplay]_vars

----------------------------------------------------------------------------
(* Specification SpecRun: both programs run on one plan file.  First the    *)
(* replay (realtime_visualizer.py), then executor_with_viz.py with an agent *)
(* that asks for the plan, item by item in plan order, and then ends with a *)
(* final message.                                                           *)

(* How the agent groups its invocations into turns: one invocation per      *)
(* turn, one item per turn, or the whole plan in one turn.                  *)
ScriptModes == {"each", "item", "all"}

(* The arguments of place_item for a plan item; an argument the plan item   *)
(* lacks is left to the function's default (line 254).                      *)
PlaceArgs(item_data) ==
    [x |-> item_data.x, y |-> item_data.y, width |-> item_data.width,
     height |-> item_data.height,
     shape |-> Get(item_data, "shape", "Rectangle"),
     price |-> Get(item_data, "price", 0),
     rotation |-> Get(item_data, "rotation", 0)]

ItemRequests(bin_id, item_data) ==
    << <<"pick_up", TRUE, <<item_data.id>> >>,
       <<"move_to_bin", TRUE, <<bin_id>> >>,
       <<"place_item", TRUE, <<item_data.id, PlaceArgs(item_data)>> >> >>

RECURSIVE BinRequests(_, _)
BinRequests(bin_id, items) ==
    IF items = <<>> THEN <<>>
    ELSE ItemRequests(bin_id, items[1]) \o BinRequests(bin_id, Tail(items))

(* All the invocations the plan asks for, in plan order. *)
RECURSIVE Script(_)
Script(plan) ==
    IF plan = <<>> THEN <<>>
    ELSE BinRequests(plan[1].binId, plan[1].items) \o Script(Tail(plan))

ChunkLen(mode, remaining) ==
    CASE mode = "each" -> 1
      [] mode = "item" -> 3
      [] mode = "all" -> remaining

InitRun ==
    /\ program = "realtime_visualizer"
    /\ agent_mode \in ScriptModes
    /\ current_item = None
    /\ current_bin = None
    /\ bin_items = [i \in 1..num_bins |-> <<>>]
    /\ total_value = 0
    /\ packed_value = 0
    /\ stats = [bins |-> [i \in 1..num_bins |-> None], unpacked_value |-> None]
    /\ call = None
    /\ result = None
    /\ pc = "animate"
    /\ iteration = 0
    /\ messages = <<>>
    /\ tool_calls = <<>>
    /\ exit = "none"
    /\ printed = <<>>
    /\ agent_calls = 0
    /\ handler_calls = 0
    /\ last_done = None
    /\ reply = "none"
    /\ geo_item = None
    /\ geo_area = None
    /\ geo_patch = None
    /\ \E nb \in 0..MaxPlanBins :
         \E sizes \in [1..nb -> 0..MaxPlanItems] :
            /\ SumInts(sizes) <= MaxPlanItems
            /\ \E ids \in [1..nb -> BinInputs] :
                  \E items \in [1..SumInts(sizes) -> ReplayItems] :
                     /\ \A i, j \in DOMAIN items : items[i] = items[j] => i = j
                     /\ replay_plan = MakePlan(ids, sizes, items)
    /\ all_placements = build_all_placements(replay_plan)
    /\ step = 0
    /\ snapshots = <<>>

(* main of executor_with_viz.py up to the loop (265-395): the total value   *)
(* of the plan, a fresh LivePackingVisualizer, the first two messages.      *)
StartExecutor ==
    /\ program = "realtime_visualizer"
    /\ pc \in {"complete", "raised"}
    /\ program' = "executor_with_viz"
    /\ total_value' = plan_total_value(replay_plan)
    /\ messages' = <<SystemMessage, UserMessage>>
    /\ pc' = "call"
    /\ UNCHANGED <<agent_mode, current_item, current_bin, bin_items,
                   packed_value, stats, call, result, iteration, tool_calls,
                   exit, printed, agent_calls, handler_calls, reply, geo_vars,
                   replay_vars>>
    /\ last_done' = Some(state_vars')

(* The agent asks for the next invocations of the plan. *)
ScriptTools ==
    /\ CanCall
    /\ agent_mode \in ScriptModes
    /\ Requested(messages) < Len(Script(replay_plan))
    /\ LET done == Requested(messages)
           n == ChunkLen(agent_mode, Len(Script(replay_plan)) - done)
           calls == WithIds(SubSeq(Script(replay_plan), done + 1, done + n),
                            agent_calls + 1)
       IN  /\ messages' = Append(messages, AssistantMessage(None, calls))
           /\ tool_calls' = calls
    /\ agent_calls' = agent_calls + 1
    /\ reply' = "tools"
    /\ pc' = "dispatch"
    /\ UNCHANGED <<program, agent_mode, geo_vars, replay_vars, state_vars,
                   call, result, iteration,
                   exit, printed, handler_calls, last_done>>

(* The agent has asked for everything and sends its final message. *)
ScriptFinal ==
    /\ agent_mode \in ScriptModes
    /\ Requested(messages) = Len(Script(replay_plan))
    /\ AgentFinal

NextRun ==
    \/ UpdatePlot
    \/ AnimateDone
    \/ StartExecutor
    \/ ScriptTools
    \/ ScriptFinal
    \/ Dispatch

SpecRun == InitRun /\ [][NextRun]_vars

----------------------------------------------------------------------------
(* Vocabulary of the claims *)

IsCall(c, name) == c # None /\ c[1] = name
IsResult(r, text) == r # None /\ r[1] = text

RECURSIVE Occurrences(_, _)
Occurrences(item_id, items) ==
    IF items = <<>> THEN 0
    ELSE (IF items[1].id = item_id THEN 1 ELSE 0)
         + Occurrences(item_id, Tail(items))

RECURSIVE TimesPlaced(_, _)
TimesPlaced(item_id, b) ==
    IF b = 0 THEN 0
    ELSE Occurrences(item_id, bin_items[b]) + TimesPlaced(item_id, b - 1)

(* C1: a place_item(itemId, ...) call made while heldItem # itemId returns  *)
(* a SequenceError result and leaves placedItems of every bin unchanged.    *)
C1_Claim ==
    [][ (IsCall(call', "place_item") /\ current_item # Some(call'[2]))
        => (IsResult(result', "SequenceError") /\ bin_items' = bin_items) ]_vars

(* C2: pick_up(itemId) while another item is held fails with                *)
(* InvalidActionError and leaves heldItem unchanged.                        *)
C2_Claim ==
    [][ (IsCall(call', "pick_up") /\ current_item # None
                                 /\ current_item # Some(call'[2]))
        => (IsResult(result', "InvalidActionError")
            /\ current_item' = current_item) ]_vars

(* C3: a successful place_item(itemId, ...) (itemId held, current bin one   *)
(* of the bins) appends exactly one record for itemId with the supplied     *)
(* geometry at the end of placedItems[currentBin], leaves the other bins    *)
(* and currentBin unchanged, and leaves no item held.                       *)
C3_Claim ==
    [][ (/\ IsCall(call', "place_item")
         /\ current_item = Some(call'[2])
         /\ current_bin # None
         /\ current_bin[1] \in 1..num_bins
         /\ IsResult(result', "has been placed successfully"))
        => (/\ bin_items' = [bin_items EXCEPT ![current_bin[1]] =
                                 Append(@, ItemRecord(call'[2], call'[3]))]
            /\ current_bin' = current_bin
            /\ current_item' = None) ]_vars

(* C4: every item id occurs at most once in placedItems over all bins.      *)
C4_Claim == \A item_id \in ItemIds : TimesPlaced(item_id, num_bins) <= 1

(* C5: the loop makes at most max_iterations (200) calls to the agent       *)
(* service, whatever the agent answers.                                     *)
C5_Claim == agent_calls <= max_iterations

(* C6: an answer without tool invocations ends the loop at that turn: no    *)
(* handler runs for it and no further call to the service is made.          *)
C6_Claim ==
    [][ (agent_calls' = agent_calls + 1 /\ reply' \in {"final", "empty"})
        => (pc' = "done" /\ handler_calls' = handler_calls) ]_vars

(* C7: before the next call to the agent service, every invocation of every *)
(* assistant turn has exactly one tool-result message with its identifier,  *)
(* placed after the assistant turn in the order the invocations were        *)
(* emitted.                                                                 *)
ResultsFor(id) ==
    { n \in DOMAIN messages :
        messages[n].role = "tool" /\ messages[n].tool_call_id = Some(id) }

Answered(k, j) ==
    /\ k + j <= Len(messages)
    /\ ResultsFor(messages[k].tool_calls[j].id) = {k + j}

C7_Claim ==
    pc = "call" =>
        \A k \in DOMAIN messages :
            messages[k].role = "assistant" =>
                \A j \in DOMAIN messages[k].tool_calls : Answered(k, j)

(* C8: when a handler fails on an invocation (malformed or invalid          *)
(* arguments), the failure text is appended as that invocation's            *)
(* tool-result and the loop goes on; the failure never ends the run.        *)
HandlerFails(tc) ==
    /\ tc.name \in available_tools
    /\ (~tc.json_ok \/ Len(tc.kwargs) # Arity(tc.name))

C8_Claim ==
    [][ (pc = "dispatch" /\ tool_calls # <<>> /\ HandlerFails(Head(tool_calls)))
        => (/\ pc' # "done"
            /\ Len(messages') = Len(messages) + 1
            /\ messages'[Len(messages')].role = "tool"
            /\ messages'[Len(messages')].tool_call_id
                  = Some(Head(tool_calls).id)) ]_vars

(* C9: when a call to the agent service fails the loop stops: no handler    *)
(* and no agent call follows, and the Execution State is the one left by    *)
(* the last handler that completed before the failed call.                  *)
C9_Thm ==
    [][ reply' = "error"
        => (/\ pc' = "done"
            /\ Some(state_vars') = last_done'
            /\ (reply = "error"
                  => UNCHANGED <<agent_calls, handler_calls, state_vars>>)) ]_vars

C9_Witness ==
    /\ reply = "error"
    /\ pc = "done"
    /\ handler_calls > 0
    /\ Placed > 0
    /\ agent_calls > 1

(* C10: the loop ends as normal, exhausted or aborted, and a run that hits  *)
(* the iteration cap is reported as incomplete, never with the completion   *)
(* report of a normally completed run.                                      *)
CompletionLines ==
    {"--- Agent execution complete. ---", "Live Bin Packing - COMPLETE!",
     "--- Agent loop finished. ---"}

C10_Claim ==
    pc = "done" =>
        /\ exit \in {"break_final", "for_end", "break_except", "raise"}
        /\ exit = "for_end" =>
              \A n \in DOMAIN printed : printed[n] \notin CompletionLines

(* C17: move_to_bin(binId) succeeds in every state, sets currentBin to      *)
(* binId and leaves heldItem, placedItems and the value totals unchanged.   *)
C17_Thm ==
    [][ IsCall(call', "move_to_bin")
        => (/\ result' = <<"Successfully arrived at bin", call'[2]>>
            /\ current_bin' = Some(call'[2])
            /\ UNCHANGED <<current_item, bin_items, total_value, packed_value,
                           stats>>) ]_vars

C17_Witness ==
    /\ IsCall(call, "move_to_bin")
    /\ current_item = None
    /\ current_bin = Some(2)
    /\ bin_items[1] # <<>>

(* C18: place_item called while currentBin is not set fails with            *)
(* SequenceError, even when the item placed is the held one, and leaves     *)
(* heldItem, placedItems and the value totals unchanged.                    *)
C18_Claim ==
    [][ (/\ IsCall(call', "place_item")
         /\ current_bin = None
         /\ current_item = Some(call'[2]))
        => (/\ IsResult(result', "SequenceError")
            /\ UNCHANGED <<current_item, bin_items, total_value, packed_value,
                           stats>>) ]_vars

(* C19: the derived totals agree with placedItems: per bin the item count   *)
(* is the length of placedItems[bin], the occupied area the sum of the      *)
(* items' actual areas and the value the sum of their prices; the packed    *)
(* value is the sum of the prices over all bins and the unpacked value is   *)
(* totalValue - packedValue.                                                *)
RECURSIVE PricesUpTo(_)
PricesUpTo(b) ==
    IF b = 0 THEN 0 ELSE SumPrices(bin_items[b]) + PricesUpTo(b - 1)

C19_Thm ==
    /\ \A b \in 1..num_bins :
          IF stats.bins[b] = None
          THEN bin_items[b] = <<>>
          ELSE /\ stats.bins[b][1].items_count = Len(bin_items[b])
               /\ stats.bins[b][1].area_used = SumArea(bin_items[b])
               /\ stats.bins[b][1].value_packed = SumPrices(bin_items[b])
    /\ packed_value = PricesUpTo(num_bins)
    /\ IF stats.unpacked_value = None
       THEN packed_value = 0
       ELSE stats.unpacked_value[1] = total_value - packed_value

C19_Witness ==
    /\ Len(bin_items[1]) = 2
    /\ Len(bin_items[2]) = 1
    /\ \E n \in 1..2 : bin_items[1][n].shape = "Circle"
    /\ bin_items[2][1].shape = "Triangle"
    /\ IsCall(call, "pick_up")

(* C20: during one run of the loop the history is append-only (the old      *)
(* history is a prefix of the new one at every step) and its first two      *)
(* messages are the system instruction and the user turn with the plan.     *)
IsPrefix(s, t) == Len(s) <= Len(t) /\ SubSeq(t, 1, Len(s)) = s

C20_Thm ==
    /\ messages[1] = SystemMessage
    /\ messages[2] = UserMessage
    /\ [][ /\ IsPrefix(messages, messages')
           /\ messages'[1] = SystemMessage
           /\ messages'[2] = UserMessage ]_vars

C20_Witness ==
    /\ exit = "break_final"
    /\ Len(messages) >= 6
    /\ handler_calls >= 2
    /\ \E n \in DOMAIN messages : messages[n].role = "tool"

(* C13: for all positive w and h and every rotation value the area          *)
(* accounted for a Triangle is w*h/2; it does not depend on the rotation.   *)
C13_Thm ==
    (geo_area # None /\ geo_item[1].shape = "Triangle")
        => geo_area[1] = Area(geo_item[1].width * geo_item[1].height, 0)

C13_Witness ==
    /\ geo_area # None
    /\ geo_item[1].shape = "Triangle"
    /\ geo_item[1].rotation = 270
    /\ geo_item[1].width # geo_item[1].height

(* Comparison of an area a/2 + b*pi/4 with an integer n, with               *)
(* 3.14159 < pi < 3.1416.                                                   *)
AreaEquals(a, n) == a.qpi = 0 /\ a.half = 2 * n
AreaBelow(a, n) == 200000 * a.half + 314160 * a.qpi < 400000 * n
AreaAbove(a, n) == 200000 * a.half + 314159 * a.qpi > 400000 * n
AreaAtMost(a, n) == AreaEquals(a, n) \/ AreaBelow(a, n)

BoxOf(i) == i.width * i.height

(* C14 as stated: for every shape value and all positive width and height   *)
(* actualArea <= width*height, with equality only when shape is Rectangle.  *)
C14_Claim ==
    geo_area # None =>
        /\ AreaAtMost(geo_area[1], BoxOf(geo_item[1]))
        /\ AreaEquals(geo_area[1], BoxOf(geo_item[1]))
              => geo_item[1].shape = "Rectangle"

(* C14 amended: actualArea <= width*height for every shape value, with      *)
(* equality exactly when the shape is neither Triangle nor Circle           *)
(* (Rectangle, or a shape value the code does not know).                    *)
C14_Thm ==
    geo_area # None =>
        /\ AreaAtMost(geo_area[1], BoxOf(geo_item[1]))
        /\ ~AreaAbove(geo_area[1], BoxOf(geo_item[1]))
        /\ AreaEquals(geo_area[1], BoxOf(geo_item[1]))
              <=> geo_item[1].shape \notin {"Triangle", "Circle"}

C14_Witness ==
    /\ geo_area # None
    /\ geo_item[1].shape = "Circle"
    /\ geo_item[1].width > geo_item[1].height
    /\ AreaBelow(geo_area[1], BoxOf(geo_item[1]))

(* C15: a Triangle's polygon has three vertices that are corners of the     *)
(* bounding box; the right angle is at (x, y) for rotation 0, (x+width, y)  *)
(* for 90, (x+width, y+height) for 180 and (x, y+height) for 270, and the   *)
(* other two vertices are the corners adjacent to it.                       *)
ValidRotations == {0, 90, 180, 270}

Corners(i) ==
    { <<i.x, i.y>>, <<i.x + i.width, i.y>>, <<i.x + i.width, i.y + i.height>>,
      <<i.x, i.y + i.height>> }

RightAngleCorner(i) ==
    CASE i.rotation = 0 -> <<i.x, i.y>>
      [] i.rotation = 90 -> <<i.x + i.width, i.y>>
      [] i.rotation = 180 -> <<i.x + i.width, i.y + i.height>>
      [] i.rotation = 270 -> <<i.x, i.y + i.height>>

(* The corners that share exactly one coordinate with corner c. *)
AdjacentCorners(i, c) ==
    { d \in Corners(i) : (d[1] = c[1]) # (d[2] = c[2]) }

PointSet(points) == { points[n] : n \in DOMAIN points }

C15_Thm ==
    (/\ geo_patch # None
     /\ geo_item[1].shape = "Triangle"
     /\ geo_item[1].rotation \in ValidRotations)
        => /\ geo_patch[1].patch = "Polygon"
           /\ Len(geo_patch[1].points) = 3
           /\ PointSet(geo_patch[1].points)
                 = {RightAngleCorner(geo_item[1])}
                   \cup AdjacentCorners(geo_item[1], RightAngleCorner(geo_item[1]))

C15_Witness ==
    /\ geo_patch # None
    /\ geo_item[1].shape = "Triangle"
    /\ geo_item[1].rotation = 180
    /\ geo_item[1].x = 2
    /\ geo_item[1].width # geo_item[1].height

(* C16: an item whose rotation is outside {0, 90, 180, 270} is rejected: it *)
(* is never processed (drawn, accounted) as if its rotation were 0.         *)
C16_Claim ==
    (geo_item # None /\ geo_item[1].rotation \notin ValidRotations)
        => (geo_patch = None /\ geo_area = None)

(* The plan as the claims read it: its size, its k-th item in plan order    *)
(* (bins in plan order, each bin's items in their listed order), and the    *)
(* count, area and value of the items of bin b among the first k.           *)
RECURSIVE PlanSize(_)
PlanSize(plan) ==
    IF plan = <<>> THEN 0 ELSE Len(plan[1].items) + PlanSize(Tail(plan))

RECURSIVE PlanItemAt(_, _)
PlanItemAt(plan, k) ==
    IF k <= Len(plan[1].items)
    THEN [bin |-> plan[1].binId, item |-> plan[1].items[k]]
    ELSE PlanItemAt(Tail(plan), k - Len(plan[1].items))

PriceOf(item) == IF "price" \in DOMAIN item THEN item.price ELSE 0

RECURSIVE Cumulative(_, _, _)
Cumulative(plan, b, k) ==
    IF k = 0 THEN [items |-> 0, area |-> Area(0, 0), value |-> 0]
    ELSE LET e == PlanItemAt(plan, k)
             rest == Cumulative(plan, b, k - 1)
         IN  IF e.bin # b THEN rest
             ELSE [items |-> rest.items + 1,
                   area |-> AreaPlus(rest.area,
                                     calculate_actual_area(e.item.shape,
                                         e.item.width, e.item.height)),
                   value |-> rest.value + PriceOf(e.item)]

(* The count of each bin's last snapshot, summed over the bins. *)
SumOfLastCounts ==
    SumInts([k \in 1..Len(snapshots) |->
                IF \A j \in (k + 1)..Len(snapshots) :
                       snapshots[j].bin_id # snapshots[k].bin_id
                THEN snapshots[k].items_in_bin
                ELSE 0])

(* progress is a percentage: the fraction 1.0 is 100 percent. *)
ProgressIs(progress, k, n) == progress.num * n = 100 * k * progress.den

BinIdsShown == \A n \in DOMAIN all_placements : all_placements[n].bin_id \in 1..4

FullPassTotals ==
    pc = "complete" =>
        /\ SumOfLastCounts = PlanSize(replay_plan)
        /\ PlanSize(replay_plan) > 0 =>
              /\ snapshots # <<>>
              /\ ProgressIs(snapshots[Len(snapshots)].progress, 1, 1)

ScenarioPlan ==
    << [binId |-> 1,
        items |-> << [id |-> "X", x |-> 0, y |-> 0, width |-> 4, height |-> 2,
                      shape |-> "Rectangle", price |-> 5] >>] >>

SnapshotPerItem ==
    /\ Len(snapshots) = step
    /\ pc = "complete" => Len(snapshots) = PlanSize(replay_plan)
    /\ \A k \in 1..Len(snapshots) :
          LET e == PlanItemAt(replay_plan, k)
              c == Cumulative(replay_plan, e.bin, k)
          IN  /\ snapshots[k].shown = k
              /\ snapshots[k].item_id = e.item.id
              /\ snapshots[k].bin_id = e.bin
              /\ snapshots[k].items_in_bin = c.items
              /\ snapshots[k].area_used = c.area
              /\ snapshots[k].value_in_bin = c.value
              /\ ProgressIs(snapshots[k].progress, k, PlanSize(replay_plan))
    /\ (replay_plan = ScenarioPlan /\ pc = "complete") =>
          /\ Len(snapshots) = 1
          /\ snapshots[1].items_in_bin = 1
          /\ AreaEquals(snapshots[1].area_used, 8)
          /\ snapshots[1].value_in_bin = 5
          /\ ProgressIs(snapshots[1].progress, 1, 1)

C23_Claim ==
    [][ (/\ IsCall(call', "place_item")
         /\ result' = <<"has been placed successfully", call'[2]>>)
        => (/\ current_bin # None
            /\ current_bin[1] \in 1..num_bins
            /\ bin_items' = [bin_items EXCEPT ![current_bin[1]] =
                                 Append(@, ItemRecord(call'[2], call'[3]))]) ]_vars

(* C24: in every state reachable by any sequence of agent tool invocations  *)
(* packedValue <= totalValue: the unpacked value totalValue - packedValue   *)
(* is never negative.                                                       *)
C24_Claim ==
    /\ packed_value <= total_value
    /\ stats.unpacked_value # None => stats.unpacked_value[1] >= 0

(* The plan item with the defaults of the arguments it lacks, and the       *)
(* plan's items of the bins with id b among the first k, in plan order.     *)
FullItem(item) ==
    [id |-> item.id, shape |-> Get(item, "shape", "Rectangle"), x |-> item.x,
     y |-> item.y, width |-> item.width, height |-> item.height,
     price |-> PriceOf(item), rotation |-> Get(item, "rotation", 0)]

RECURSIVE PlanItemsOfBin(_, _, _)
PlanItemsOfBin(plan, b, k) ==
    IF k = 0 THEN <<>>
    ELSE IF PlanItemAt(plan, k).bin = b
    THEN Append(PlanItemsOfBin(plan, b, k - 1), FullItem(PlanItemAt(plan, k).item))
    ELSE PlanItemsOfBin(plan, b, k - 1)

PlacedItemsOf(b) == IF b \in DOMAIN bin_items THEN bin_items[b] ELSE <<>>

(* Every item of the plan lies in a bin with an id in 1..4. *)
PlanBinsInRange ==
    \A k \in 1..PlanSize(replay_plan) :
        PlanItemAt(replay_plan, k).bin \in 1..num_bins

PlanExecuted ==
    (program = "executor_with_viz" /\ pc = "done" /\ exit = "break_final") =>
        /\ \A n \in DOMAIN replay_plan :
              PlacedItemsOf(replay_plan[n].binId)
                  = PlanItemsOfBin(replay_plan, replay_plan[n].binId,
                                   PlanSize(replay_plan))
        /\ \A k \in 1..PlanSize(replay_plan) :
              TimesPlaced(PlanItemAt(replay_plan, k).item.id, num_bins) = 1
        /\ total_value - packed_value = 0
        /\ stats.unpacked_value # None => stats.unpacked_value[1] = 0

SameAsReplay ==
    \A k \in 1..PlanSize(replay_plan) :
        (program = "executor_with_viz" /\ handler_calls = 3 * k) =>
            LET b == PlanItemAt(replay_plan, k).bin IN
            /\ \E n \in DOMAIN snapshots : snapshots[n].shown = k
            /\ \A n \in DOMAIN snapshots :
                  snapshots[n].shown = k =>
                      /\ b \in DOMAIN stats.bins
                      /\ stats.bins[b] # None
                      /\ stats.bins[b][1].items_count = snapshots[n].items_in_bin
                      /\ stats.bins[b][1].area_used = snapshots[n].area_used
                      /\ stats.bins[b][1].value_packed = snapshots[n].value_in_bin

====
